---- MODULE Spec2Model ----
(***************************************************************************)
(* Model of the OAuth2 authorization-code flow of src/token/auth.rs:       *)
(* Authorizer::new, auth_code_url, authorize, auth_code, refresh_token and *)
(* save, together with the one-shot local callback listener                *)
(* (token::local_server) and Token::save that authorize() and save() call. *)
(* Strings are sequences of one-character strings so that the form         *)
(* encoding of the authorization URL and the decoding of the callback      *)
(* query are computed rather than assumed.                                 *)
(***************************************************************************)
EXTENDS Integers, Sequences, FiniteSets, TLC

\* Number of concurrent save()/authorize() calls on the same redirect port.
NumAttempts == 2
\* Longest client id drawn for Authorizer::new in SpecUrl.
MaxIdLen == 2

Attempts == 1..NumAttempts

----------------------------------------------------------------------------
(* application/x-www-form-urlencoded, as Url::query_pairs_mut() writes it  *)
(* and Url::query_pairs() reads it.                                        *)

\* Characters that byte_serialize percent-encodes (everything used in the
\* model that is not alphanumeric or one of * - . _), and the space.
Specials == {":", "/", "@", "&", "=", "%", "+"}

HexOf(ch) ==
    CASE ch = ":" -> <<"3", "A">>
      [] ch = "/" -> <<"2", "F">>
      [] ch = "@" -> <<"4", "0">>
      [] ch = "&" -> <<"2", "6">>
      [] ch = "=" -> <<"3", "D">>
      [] ch = "%" -> <<"2", "5">>
      [] ch = "+" -> <<"2", "B">>

RECURSIVE byte_serialize(_)
byte_serialize(s) ==
    IF s = <<>> THEN <<>>
    ELSE LET ch == Head(s)
             enc == IF ch = " " THEN <<"+">>
                    ELSE IF ch \in Specials THEN <<"%">> \o HexOf(ch)
                    ELSE <<ch>>
         IN enc \o byte_serialize(Tail(s))

RECURSIVE form_decode(_)
form_decode(s) ==
    IF s = <<>> THEN <<>>
    ELSE IF Head(s) = "+" THEN <<" ">> \o form_decode(Tail(s))
    ELSE IF /\ Head(s) = "%"
            /\ Len(s) >= 3
            /\ \E ch \in Specials : HexOf(ch) = <<s[2], s[3]>>
         THEN <<CHOOSE ch \in Specials : HexOf(ch) = <<s[2], s[3]>> >>
                  \o form_decode(SubSeq(s, 4, Len(s)))
    ELSE <<Head(s)>> \o form_decode(Tail(s))

\* extend_pairs: name=value joined by "&", names and values encoded.
RECURSIVE extend_pairs(_)
extend_pairs(pairs) ==
    IF pairs = <<>> THEN <<>>
    ELSE LET one == byte_serialize(pairs[1][1]) \o <<"=">> \o byte_serialize(pairs[1][2])
         IN IF Len(pairs) = 1 THEN one
            ELSE one \o <<"&">> \o extend_pairs(Tail(pairs))

RECURSIVE SplitOn(_, _)
SplitOn(s, sep) ==
    IF \A i \in 1..Len(s) : s[i] # sep THEN <<s>>
    ELSE LET i == CHOOSE k \in 1..Len(s) :
                      s[k] = sep /\ \A j \in 1..(k - 1) : s[j] # sep
         IN <<SubSeq(s, 1, i - 1)>> \o SplitOn(SubSeq(s, i + 1, Len(s)), sep)

\* One name=value segment of a query: split at the first "=", then decode.
ParsePair(seg) ==
    IF \A i \in 1..Len(seg) : seg[i] # "=" THEN <<form_decode(seg), <<>> >>
    ELSE LET i == CHOOSE k \in 1..Len(seg) :
                      seg[k] = "=" /\ \A j \in 1..(k - 1) : seg[j] # "="
         IN <<form_decode(SubSeq(seg, 1, i - 1)),
              form_decode(SubSeq(seg, i + 1, Len(seg)))>>

\* Url::query_pairs(): the decoded (name, value) pairs, empty segments skipped.
query_pairs(q) ==
    LET segs == SelectSeq(SplitOn(q, "&"), LAMBDA x : x # <<>>)
    IN [i \in 1..Len(segs) |-> ParsePair(segs[i])]

\* .collect::<HashMap<_, _>>(): one value per name, the last one wins.
CollectMap(pairs) ==
    [k \in {pairs[i][1] : i \in DOMAIN pairs} |->
        pairs[CHOOSE i \in DOMAIN pairs :
                 pairs[i][1] = k /\ \A j \in DOMAIN pairs : j > i => pairs[j][1] # k][2]]

----------------------------------------------------------------------------
(* Authorizer::new and auth_code_url                                       *)

\* Url::parse on the redirect URL: a scheme (letters) followed by ':'.
IsAbsoluteUrl(s) ==
    \E i \in 2..Len(s) :
        /\ s[i] = ":"
        /\ \A j \in 1..(i - 1) : s[j] \notin (Specials \cup {" "})

Panicked == [kind |-> "panicked"]

\* Authorizer::new: the client (id, secret, redirect URL, the two fixed
\* endpoints); .expect() panics on a redirect URL that does not parse.
new(app_key, secret, redirect_url) ==
    IF IsAbsoluteUrl(redirect_url)
    THEN [kind |-> "authorizer",
          client_id |-> app_key,
          secret |-> secret,
          redirect_uri |-> redirect_url,
          auth_url |-> [scheme |-> "https", host |-> "api.schwabapi.com",
                        path |-> "/v1/oauth/authorize"],
          token_url |-> [scheme |-> "https", host |-> "api.schwabapi.com",
                         path |-> "/v1/oauth/token"]]
    ELSE Panicked

\* A mis-built URL: the values are written without form encoding.
auth_code_url_raw(self, csrf_token) ==
    [url |-> [scheme |-> self.auth_url.scheme,
              host |-> self.auth_url.host,
              path |-> self.auth_url.path,
              query |-> <<"response_type", "=", "c", "o", "d", "e", "&", "client_id", "=">>
                          \o self.client_id
                          \o <<"&", "state", "=">> \o csrf_token
                          \o <<"&", "redirect_uri", "=">> \o self.redirect_uri
                          \o <<"&", "scope", "=", "r", "e", "a", "d", "o", "n", "l", "y">>],
     csrf |-> csrf_token]

\* Authorizer::auth_code_url: client.authorize_url(CsrfToken::new_random)
\* .add_scope("readonly").url(); the random token is the csrf_token argument.
auth_code_url(self, csrf_token) ==
    [url |-> [scheme |-> self.auth_url.scheme,
              host |-> self.auth_url.host,
              path |-> self.auth_url.path,
              query |-> extend_pairs(<<
                  << <<"response_type">>, <<"c", "o", "d", "e">> >>,
                  << <<"client_id">>, self.client_id >>,
                  << <<"state">>, csrf_token >>,
                  << <<"redirect_uri">>, self.redirect_uri >>,
                  << <<"scope">>, <<"r", "e", "a", "d", "o", "n", "l", "y">> >> >>)],
     csrf |-> csrf_token]

----------------------------------------------------------------------------
(* State                                                                   *)

VARIABLES
    inputs,       \* the arguments handed to Authorizer::new (auth.rs:25-30)
    authorizer,   \* the Authorizer, or not yet built / panicked (auth.rs:19-22)
    pc,           \* pc[a]: where save()/authorize() call a stands
    issued,       \* issued[a]: the (Url, CsrfToken) of auth.rs:45
    browser,      \* browser[a]: what open::that did for a (auth.rs:47)
    bound,        \* bound[a]: a's local listener holds the redirect port
    server,       \* server[a]: what local_server did for a
    authCode,     \* authCode[a]: the AuthorizationCode of auth.rs:55
    exchangeLog,  \* exchangeLog[a]: the token requests sent at auth.rs:57
    authResult,   \* authResult[a]: how authorize() ended for a
    saveResult,   \* saveResult[a]: how save() ended for a
    storage       \* the token file at the path given to save()

vars == <<inputs, authorizer, pc, issued, browser, bound, server, authCode,
          exchangeLog, authResult, saveResult, storage>>

flowVars == <<pc, issued, browser, bound, server, authCode,
              exchangeLog, authResult, saveResult, storage>>

None == [kind |-> "none"]

\* tests::REDIRECT_URL and the test client of test_get_auth_code_url.
REDIRECT_URL == <<"h", "t", "t", "p", "s", ":", "/", "/", "1", "2", "7", ".", "0", ".",
                  "0", ".", "1", ":", "8", "0", "8", "0">>
CLIENTID == <<"C", "L", "I", "E", "N", "T", "I", "D">>
SECRET == <<"S", "E", "C", "R", "E", "T">>

\* Values CsrfToken::new_random can return (base64url text, never empty).
CsrfPool == {<<"x", "-", "1">>, <<"y", "_", "2">>}

\* Inputs drawn for Authorizer::new.
IdChars == {"K", "&", "=", " ", "%", "+"}
AppKeys == UNION {[1..n -> IdChars] : n \in 1..MaxIdLen}
RedirectUrls == {REDIRECT_URL,
                 <<"h", ":", "/", "/", "a", "/", "c", "b", "@", "1">>,
                 <<"1", "2", "7">>,
                 <<":", "/">>}

\* Authorization codes the provider (or anyone reaching the port) may send.
Codes == {<<"c", "o", "d", "e">>, <<"C", ".", "x", "@">>}
\* state values a callback may carry: those of any attempt, whichever
\* attempt's listener the request reaches.
CallbackStates == CsrfPool

\* The query strings of the requests that may reach the listener:
\* ?state=..&code=.., and requests lacking one of the two parameters.
CallbackQueries ==
    {extend_pairs(<< << <<"state">>, s >>, << <<"code">>, c >> >>) :
        s \in CallbackStates, c \in Codes}
    \cup {extend_pairs(<< << <<"code">>, <<"c", "o", "d", "e">> >> >>)}
    \cup {extend_pairs(<< << <<"state">>, s >> >>) : s \in CsrfPool}

----------------------------------------------------------------------------
(* token::local_server, the one-shot listener auth_code awaits             *)

\* Binding the redirect port: refused while another listener holds it.
local_server_bind(holders) ==
    IF holders = {} THEN [kind |-> "listening"]
    ELSE [kind |-> "panic", msg |-> "bind"]

\* One request captured: its code and state are returned as received, the
\* comparison of state is left to the caller; a request lacking either
\* parameter is a malformed callback.
local_server_capture(query) ==
    LET params == CollectMap(query_pairs(query))
    IN IF <<"code">> \in DOMAIN params /\ <<"state">> \in DOMAIN params
       THEN [kind |-> "code", code |-> params[<<"code">>],
             state |-> params[<<"state">>]]
       ELSE [kind |-> "panic", msg |-> "malformed callback"]

\* What the listener makes of each request that may reach it.
CaptureOf == [q \in CallbackQueries |-> local_server_capture(q)]

\* No request within the wait window.
local_server_timeout == [kind |-> "panic", msg |-> "timeout"]

----------------------------------------------------------------------------
(* Authorizer::authorize, auth_code, refresh_token, save                   *)

\* A launch failure that ends the attempt.
open_that_fatal(opened) == IF opened THEN "bind" ELSE "panicked"

\* authorize(), the match on open::that: both arms only print, and the
\* attempt goes on to auth_code.
open_that(opened) == "bind"

\* auth_code: AuthorizationCode::new(code) around what local_server returned.
auth_code(code) == [kind |-> "AuthorizationCode", secret |-> code]

\* A listener failure taken for an (empty) code.
await_auth_code_lenient(outcome) ==
    IF outcome.kind = "panic"
    THEN [pc |-> "exchange", code |-> auth_code(<<>>), result |-> None]
    ELSE [pc |-> "exchange", code |-> auth_code(outcome.code), result |-> None]

\* authorize(), `Self::auth_code(..).await`: auth_code returns an
\* AuthorizationCode and no Result, so the only way it does not yield a code
\* is a panic, which unwinds authorize(); a code goes on to the exchange.
await_auth_code(outcome) ==
    IF outcome.kind = "panic"
    THEN [pc |-> "panicked", code |-> None,
          result |-> [kind |-> "Panic", msg |-> outcome.msg]]
    ELSE [pc |-> "exchange", code |-> auth_code(outcome.code), result |-> None]

\* A token request that sends the code form-encoded once more.
refresh_token_reencoded(self, code) ==
    [grant_type |-> "authorization_code", code |-> byte_serialize(code.secret),
     client_id |-> self.client_id, redirect_uri |-> self.redirect_uri]

\* refresh_token: client.exchange_code(auth_code), the request it sends.
refresh_token(self, code) ==
    [grant_type |-> "authorization_code", code |-> code.secret,
     client_id |-> self.client_id, redirect_uri |-> self.redirect_uri]

\* What the token endpoint may answer to attempt a: an error (rejection or
\* network failure), or a token response with or without a refresh token.
TokenResponses(a) ==
    {[kind |-> "error"],
     [kind |-> "response", access |-> <<"access", a>>, has_refresh |-> FALSE,
      refresh |-> <<>>, token_type |-> "bearer"],
     [kind |-> "response", access |-> <<"access", a>>, has_refresh |-> TRUE,
      refresh |-> <<"refresh", a>>, token_type |-> "bearer"]}

\* authorize() after the exchange: `?` returns the exchange error, .expect
\* panics on a response without refresh token, otherwise the Token.
authorize_result(response) ==
    IF response.kind = "error" THEN [kind |-> "Err", error |-> "TokenExchange"]
    ELSE IF ~response.has_refresh
         THEN [kind |-> "Panic", msg |-> "should have refresh_token"]
    ELSE [kind |-> "Ok",
          token |-> [access |-> response.access, refresh |-> response.refresh,
                     type_ |-> response.token_type]]

\* Token::save(path): the whole token replaces the file, or a storage error.
token_save(token, write, old) ==
    CASE write = "ok" -> [result |-> [kind |-> "Ok"],
                          storage |-> [kind |-> "token", token |-> token]]
      [] write = "denied" -> [result |-> [kind |-> "Err", error |-> "storage"],
                              storage |-> old]

WriteOutcomes == {"ok", "denied"}

\* A save that writes whatever authorize() left and reports success.
save_unchecked(auth, write, old) ==
    LET token == IF auth.kind = "Ok" THEN auth.token
                 ELSE [access |-> <<>>, refresh |-> <<>>, type_ |-> ""]
        w == token_save(token, write, old)
    IN [result |-> [kind |-> "Ok", token |-> token], storage |-> w.storage]

\* save: authorize().await.map_err(Error::Token)?; token.save(path)?; Ok(token)
save(auth, write, old) ==
    IF auth.kind = "Err"
    THEN [result |-> [kind |-> "Err", error |-> "Token"], storage |-> old]
    ELSE LET w == token_save(auth.token, write, old)
         IN IF w.result.kind = "Err"
            THEN [result |-> w.result, storage |-> w.storage]
            ELSE [result |-> [kind |-> "Ok", token |-> auth.token],
                  storage |-> w.storage]

----------------------------------------------------------------------------
(* Actions                                                                 *)

\* Authorizer::new on the drawn inputs.
New ==
    /\ authorizer = None
    /\ authorizer' = new(inputs.app_key, inputs.secret, inputs.redirect_url)
    /\ UNCHANGED <<inputs, flowVars>>

\* authorize(): let (auth_url, csrf_token) = self.auth_code_url();
AuthCodeUrl(a) ==
    /\ pc[a] = "start"
    /\ authorizer.kind = "authorizer"
    /\ \E r \in CsrfPool :
           issued' = [issued EXCEPT ![a] = auth_code_url(authorizer, r)]
    /\ pc' = [pc EXCEPT ![a] = "open"]
    /\ UNCHANGED <<inputs, authorizer, browser, bound, server, authCode,
                   exchangeLog, authResult, saveResult, storage>>

\* authorize(): match open::that(auth_url.as_ref()) { .. }
OpenBrowser(a) ==
    /\ pc[a] = "open"
    /\ \E opened \in BOOLEAN :
           /\ browser' = [browser EXCEPT ![a] = IF opened THEN "opened" ELSE "failed"]
           /\ pc' = [pc EXCEPT ![a] = open_that(opened)]
    /\ UNCHANGED <<inputs, authorizer, issued, bound, server, authCode,
                   exchangeLog, authResult, saveResult, storage>>

\* auth_code -> local_server: bind the redirect port, or fail at once.
LocalServerBind(a) ==
    /\ pc[a] = "bind"
    /\ LET out == local_server_bind({b \in Attempts : bound[b]})
       IN /\ server' = [server EXCEPT ![a] = out]
          /\ IF out.kind = "listening"
             THEN /\ bound' = [bound EXCEPT ![a] = TRUE]
                  /\ pc' = [pc EXCEPT ![a] = "await"]
                  /\ UNCHANGED <<authCode, authResult>>
             ELSE LET r == await_auth_code(out)
                  IN /\ pc' = [pc EXCEPT ![a] = r.pc]
                     /\ authCode' = [authCode EXCEPT ![a] = r.code]
                     /\ authResult' = [authResult EXCEPT ![a] = r.result]
                     /\ UNCHANGED bound
    /\ UNCHANGED <<inputs, authorizer, issued, browser, exchangeLog, saveResult,
                   storage>>

\* local_server: one request arrives; it is answered, the port is released
\* and auth_code returns (or the malformed callback ends the attempt).
LocalServerCallback(a) ==
    /\ pc[a] = "await"
    /\ bound[a]
    /\ \E q \in CallbackQueries :
           LET out == CaptureOf[q]
               r == await_auth_code(out)
           IN /\ server' = [server EXCEPT ![a] = out]
              /\ pc' = [pc EXCEPT ![a] = r.pc]
              /\ authCode' = [authCode EXCEPT ![a] = r.code]
              /\ authResult' = [authResult EXCEPT ![a] = r.result]
    /\ bound' = [bound EXCEPT ![a] = FALSE]
    /\ UNCHANGED <<inputs, authorizer, issued, browser, exchangeLog, saveResult,
                   storage>>

\* local_server: the wait window passes without a request.
LocalServerTimeout(a) ==
    /\ pc[a] = "await"
    /\ bound[a]
    /\ LET r == await_auth_code(local_server_timeout)
       IN /\ server' = [server EXCEPT ![a] = local_server_timeout]
          /\ pc' = [pc EXCEPT ![a] = r.pc]
          /\ authCode' = [authCode EXCEPT ![a] = r.code]
          /\ authResult' = [authResult EXCEPT ![a] = r.result]
    /\ bound' = [bound EXCEPT ![a] = FALSE]
    /\ UNCHANGED <<inputs, authorizer, issued, browser, exchangeLog, saveResult,
                   storage>>

\* authorize(): self.refresh_token(auth_code).await? and what follows it.
\* The token request carries the code; the token endpoint answers;
\* authorize() returns (or panics), and save() maps the error or writes the
\* token and returns.
Exchange(a) ==
    /\ pc[a] = "exchange"
    /\ exchangeLog' = [exchangeLog EXCEPT
                          ![a] = Append(@, refresh_token(authorizer, authCode[a]))]
    /\ \E response \in TokenResponses(a), write \in WriteOutcomes :
           LET auth == authorize_result(response)
           IN /\ authResult' = [authResult EXCEPT ![a] = auth]
              /\ IF auth.kind = "Panic"
                 THEN /\ pc' = [pc EXCEPT ![a] = "panicked"]
                      /\ UNCHANGED <<saveResult, storage>>
                 ELSE LET s == save(auth, write, storage)
                      IN /\ pc' = [pc EXCEPT ![a] = "done"]
                         /\ saveResult' = [saveResult EXCEPT ![a] = s.result]
                         /\ storage' = s.storage
    /\ UNCHANGED <<inputs, authorizer, issued, browser, bound, server, authCode>>

----------------------------------------------------------------------------
(* Specifications                                                          *)

FlowInit ==
    /\ pc = [a \in Attempts |-> "start"]
    /\ issued = [a \in Attempts |-> None]
    /\ browser = [a \in Attempts |-> "none"]
    /\ bound = [a \in Attempts |-> FALSE]
    /\ server = [a \in Attempts |-> None]
    /\ authCode = [a \in Attempts |-> None]
    /\ exchangeLog = [a \in Attempts |-> <<>>]
    /\ authResult = [a \in Attempts |-> None]
    /\ saveResult = [a \in Attempts |-> None]
    /\ storage = [kind |-> "empty"]

\* The flow: an Authorizer built from the test's client, NumAttempts calls
\* of save() on it.
Init ==
    /\ inputs = [app_key |-> CLIENTID, secret |-> SECRET, redirect_url |-> REDIRECT_URL]
    /\ authorizer = new(CLIENTID, SECRET, REDIRECT_URL)
    /\ FlowInit

Next ==
    \E a \in Attempts :
        \/ AuthCodeUrl(a)
        \/ OpenBrowser(a)
        \/ LocalServerBind(a)
        \/ LocalServerCallback(a)
        \/ LocalServerTimeout(a)
        \/ Exchange(a)

Spec == Init /\ [][Next]_vars

\* URL construction: any client id and redirect URL, then auth_code_url.
InitUrl ==
    /\ inputs \in [app_key : AppKeys, secret : {SECRET}, redirect_url : RedirectUrls]
    /\ authorizer = None
    /\ FlowInit

NextUrl ==
    \/ New
    \/ \E a \in Attempts : AuthCodeUrl(a)

SpecUrl == InitUrl /\ [][NextUrl]_vars

----------------------------------------------------------------------------
(* Properties                                                              *)

Ended(a) == pc[a] \in {"done", "panicked"}

\* The callback a's listener captured carries the state issued to a.
StateMatches(a) == server[a].kind = "code" /\ server[a].state = issued[a].csrf
StateDiffers(a) == server[a].kind = "code" /\ server[a].state # issued[a].csrf

BindError == [kind |-> "panic", msg |-> "bind"]

\* C1: a callback whose state differs from the CsrfToken of the attempt ends
\* authorize() with a CSRF-mismatch error; no token request is sent and no
\* Token is returned.
C1_CsrfMismatchAborts ==
    \A a \in Attempts :
        StateDiffers(a) =>
            /\ exchangeLog[a] = <<>>
            /\ authResult[a].kind # "Ok"
            /\ Ended(a) => authResult[a] = [kind |-> "Err", error |-> "CsrfMismatch"]

\* C2: the browser is never launched for an attempt whose listener is not
\* yet bound.
C2_ListenerBeforeBrowser ==
    \A a \in Attempts :
        browser[a] = "opened" => (bound[a] \/ server[a] # None)

\* C3: when no callback arrives, authorize() returns a timeout error and the
\* port is free again.
C3_TimeoutReturnsError ==
    \A a \in Attempts :
        server[a] = local_server_timeout =>
            /\ authResult[a] = [kind |-> "Err", error |-> "CallbackTimeout"]
            /\ ~bound[a]

\* C4: for a callback whose state matches, the code handed to the token
\* exchange is the code extracted from the callback, unchanged, and it is the
\* only code exchanged.
C4_CodePassedVerbatim ==
    \A a \in Attempts :
        StateMatches(a) =>
            /\ authCode[a] = [kind |-> "AuthorizationCode", secret |-> server[a].code]
            /\ \A i \in DOMAIN exchangeLog[a] : exchangeLog[a][i].code = server[a].code
            /\ Len(exchangeLog[a]) <= 1
            /\ Ended(a) => Len(exchangeLog[a]) = 1

C4_Witness ==
    \E a \in Attempts :
        /\ StateMatches(a)
        /\ server[a].code = <<"C", ".", "x", "@">>
        /\ Len(exchangeLog[a]) = 1

Chars(w) ==
    CASE w = "code" -> <<"c", "o", "d", "e">>
      [] w = "readonly" -> <<"r", "e", "a", "d", "o", "n", "l", "y">>

\* C5: the URL auth_code_url returns targets https://api.schwabapi.com
\* /v1/oauth/authorize, and its query parameters are exactly response_type,
\* client_id, redirect_uri, scope and state, with response_type = code, the
\* client id and redirect URL given to the constructor, scope = readonly and
\* a non-empty state equal to the CsrfToken returned with the URL.
C5_AuthorizationUrl ==
    \A a \in Attempts :
        issued[a] # None =>
            LET url == issued[a].url
                pairs == query_pairs(url.query)
                params == CollectMap(pairs)
            IN /\ url.scheme = "https"
               /\ url.host = "api.schwabapi.com"
               /\ url.path = "/v1/oauth/authorize"
               /\ Len(pairs) = 5
               /\ DOMAIN params = {<<"response_type">>, <<"client_id">>,
                                   <<"redirect_uri">>, <<"scope">>, <<"state">>}
               /\ params[<<"response_type">>] = Chars("code")
               /\ params[<<"client_id">>] = inputs.app_key
               /\ params[<<"redirect_uri">>] = inputs.redirect_url
               /\ params[<<"scope">>] = Chars("readonly")
               /\ params[<<"state">>] = issued[a].csrf
               /\ issued[a].csrf # <<>>

C5_Witness ==
    \E a \in Attempts :
        /\ issued[a] # None
        /\ inputs.app_key = <<"&", "=">>
        /\ inputs.redirect_url = <<"h", ":", "/", "/", "a", "/", "c", "b", "@", "1">>

\* C7: every failure of authorize() other than a browser-launch failure
\* reaches the caller as an error result; none ends the attempt otherwise.
C7_FailuresAreErrors ==
    \A a \in Attempts :
        (Ended(a) /\ authResult[a].kind # "Ok") => authResult[a].kind = "Err"

C9_LaunchFailureNonFatal ==
    [][\A a \in Attempts :
          (pc[a] = "open" /\ pc'[a] # "open") =>
              /\ pc'[a] = "bind"
              /\ browser'[a] \in {"opened", "failed"}
              /\ issued'[a] = issued[a]
              /\ authResult'[a] = None
              /\ saveResult'[a] = None
      ]_vars

C9_Witness ==
    \E a \in Attempts :
        /\ browser[a] = "failed"
        /\ StateMatches(a)
        /\ authResult[a].kind = "Ok"

====
